---- MODULE Spec2Model ----
(***************************************************************************)
(* Model of app.py: the TAIEX + single stock 200-SMA dual-filter backtest. *)
(* One behaviour is a sequence of script runs of the page.  A run reads    *)
(* the widgets, asks for the symbols' date ranges, validates the request,  *)
(* downloads both price histories, joins them, computes the SMAs, the      *)
(* Signal, Position and equity columns, the risk metrics and the report.   *)
(* Prices are integers, every derived value is an exact rational <<n, d>>  *)
(* in lowest terms with d > 0.                                             *)
(***************************************************************************)
EXTENDS Integers, Sequences, FiniteSets, TLC

\* Window of the SMA, in bars (200 in app.py, scaled down for the model).
WINDOW == 2

\* Number of trading days of the modelled calendar, 1..NumDays.
NumDays == 4

\* Extra history requested before `start`: timedelta(days=365) in app.py,
\* which is a little more than WINDOW trading days.
Lookback == WINDOW

\* Default of the number_input "投入本金".
Capital == 100000

TAIEX_SYMBOL == "^TWII"

\* Values of the Signal column (0: no signal) and of the Position column.
Enter == 1
Exit == -1
Long == 1
Flat == 0

\* Values the stock code text_input can hold in a run.
StockCodes == {"", "2330"}

Days == 1..NumDays

\* Price histories are walks with a daily move of -1, 0 or +1 from BasePrice;
\* BasePrice = NumDays keeps every price positive.
Steps == {-1, 0, 1}
BasePrice == NumDays

VARIABLES
  pc,              \* position of the script run
  outcome,         \* how the last run ended
  stock_code,      \* text_input value of the run
  start,           \* date_input "開始日期"
  end,             \* date_input "結束日期"
  clicked,         \* the button "開始回測" was pressed for this run
  cache,           \* st.cache_data of get_symbol_range: the symbols it holds
  rendered,        \* the button was drawn by the previous run
  requests,        \* provider requests the run issued ahead of the handler's
                   \* validations (emptied once they pass: `fetch` records the rest)
  fetch,           \* the two load_price calls of this run: "none" (not called),
                   \* "raise", "empty" or "ok"
  df_index_raw,    \* load_price(TAIEX_SYMBOL, ...)
  df_stock_raw,    \* load_price(stock_symbol, ...)
  df,              \* the backtest frame
  Return_stock,
  Signal,
  Position,
  Equity_Strategy,
  Equity_BH,
  metrics,         \* <<>> or <<strategy, buy-and-hold>> results of calc_core
  report           \* <<>> or <<the rendered report>>

vars == <<pc, outcome, stock_code, start, end, clicked, cache, rendered, requests,
          fetch, df_index_raw, df_stock_raw, df, Return_stock, Signal, Position,
          Equity_Strategy, Equity_BH, metrics, report>>

-----------------------------------------------------------------------------
\* Exact rational arithmetic.

Abs(x) == IF x < 0 THEN -x ELSE x

RECURSIVE GCD(_, _)
GCD(a, b) == IF b = 0 THEN a ELSE GCD(b, a % b)

Rat(n, d) == LET g == GCD(Abs(n), d) IN <<n \div g, d \div g>>

RInt(n) == <<n, 1>>
RAdd(a, b) == Rat(a[1] * b[2] + b[1] * a[2], a[2] * b[2])
RSub(a, b) == Rat(a[1] * b[2] - b[1] * a[2], a[2] * b[2])
RMul(a, b) == Rat(a[1] * b[1], a[2] * b[2])
\* a / b for b > 0
RDiv(a, b) == Rat(a[1] * b[2], a[2] * b[1])
RLt(a, b) == a[1] * b[2] < b[1] * a[2]
RLe(a, b) == a[1] * b[2] <= b[1] * a[2]
RMax(a, b) == IF RLt(a, b) THEN b ELSE a
RMin(a, b) == IF RLt(b, a) THEN b ELSE a

RECURSIVE RSum(_)
RSum(s) == IF s = <<>> THEN RInt(0) ELSE RAdd(s[1], RSum(Tail(s)))

-----------------------------------------------------------------------------
\* The price-history provider.

RECURSIVE Walks(_)
Walks(n) ==
  IF n = 1 THEN {<<BasePrice>>}
  ELSE {Append(w, w[Len(w)] + s) : w \in Walks(n - 1), s \in Steps}

\* A sorted, duplicate-free history with one bar on every day of lo..hi.
Series(lo, hi) ==
  {[i \in 1..(hi - lo + 1) |-> [date |-> lo + i - 1, Price |-> w[i]]] :
      w \in Walks(hi - lo + 1)}

\* What fetch_history can return for a stock over the range [from, to], when
\* it returns bars at all: the bars of an interval of days inside the range
\* (the stock may be listed later than `from` or stop trading before `to`).
StockHistories(from, to) ==
  LET InRange == {d \in Days : d >= from /\ d <= to}
  IN UNION {Series(iv[1], iv[2]) : iv \in {p \in InRange \X InRange : p[1] <= p[2]}}

\* The index has a bar on every day of the range.
IndexHistories(from, to) ==
  LET InRange == {d \in Days : d >= from /\ d <= to}
  IN IF InRange = {} THEN {}
     ELSE Series(CHOOSE d \in InRange : \A e \in InRange : d <= e, to)

stock_symbol == IF stock_code # "" THEN stock_code \o ".TW" ELSE ""

Symbols == {TAIEX_SYMBOL} \cup {c \o ".TW" : c \in StockCodes \ {""}}

-----------------------------------------------------------------------------
Init ==
  /\ pc = "idle"
  /\ outcome = "none"
  /\ stock_code = "2330"
  /\ start = 1
  /\ end = NumDays
  /\ clicked = FALSE
  /\ cache = {}
  /\ rendered = FALSE
  /\ requests = {}
  /\ fetch = [index |-> "none", stock |-> "none"]
  /\ df_index_raw = <<>>
  /\ df_stock_raw = <<>>
  /\ df = <<>>
  /\ Return_stock = <<>>
  /\ Signal = <<>>
  /\ Position = <<>>
  /\ Equity_Strategy = <<>>
  /\ Equity_BH = <<>>
  /\ metrics = <<>>
  /\ report = <<>>

run_vars == <<fetch, df_index_raw, df_stock_raw, df, Return_stock, Signal, Position,
              Equity_Strategy, Equity_BH, metrics, report>>

\* A script run starts: the widgets are read.  The button can only have been
\* pressed if the previous run drew it.
StartRun ==
  /\ pc = "idle"
  /\ \E c \in StockCodes, s \in Days, e \in Days,
        b \in (IF rendered THEN BOOLEAN ELSE {FALSE}) :
        /\ stock_code' = c
        /\ start' = s
        /\ end' = e
        /\ clicked' = b
  /\ pc' = "range_index"
  /\ outcome' = "none"
  /\ requests' = {}
  /\ rendered' = FALSE
  /\ UNCHANGED <<cache, run_vars>>

\* get_symbol_range(symbol) behind st.cache_data: a cached symbol is answered
\* from the cache; otherwise the provider is asked and either raises (nothing
\* is cached, the exception leaves the script) or answers (the answer, a range
\* or (None, None), is cached).  The answer only feeds the st.info banner.
GetSymbolRange(symbol, next_pc) ==
  IF symbol \in cache
  THEN /\ pc' = next_pc
       /\ UNCHANGED <<outcome, cache, requests>>
  ELSE /\ requests' = requests \cup {<<"get_symbol_range", symbol>>}
       /\ \E answer \in {"raise", "none", "range"} :
            IF answer = "raise"
            THEN /\ pc' = "done"
                 /\ outcome' = "crashed"
                 /\ UNCHANGED cache
            ELSE /\ pc' = next_pc
                 /\ cache' = cache \cup {symbol}
                 /\ UNCHANGED outcome

\* taiex_min, taiex_max = get_symbol_range(TAIEX_SYMBOL)
RangeIndex ==
  /\ pc = "range_index"
  /\ GetSymbolRange(TAIEX_SYMBOL, "range_stock")
  /\ UNCHANGED <<stock_code, start, end, clicked, rendered, run_vars>>

\* stock_min, stock_max = get_symbol_range(stock_symbol) if stock_symbol else (None, None)
RangeStock ==
  /\ pc = "range_stock"
  /\ IF stock_symbol # ""
     THEN GetSymbolRange(stock_symbol, "button")
     ELSE /\ pc' = "button"
          /\ UNCHANGED <<outcome, cache, requests>>
  /\ UNCHANGED <<stock_code, start, end, clicked, rendered, run_vars>>

\* A validation that lets start = end through.
DateRangeInvalidOffByOne(s, e) == s > e

\* if start >= end: st.error(...); st.stop()
DateRangeInvalid(s, e) == s >= e

\* if st.button(...): the two validations of the handler.
Validate ==
  /\ pc = "button"
  /\ rendered' = TRUE
  /\ IF ~clicked
     THEN pc' = "done" /\ outcome' = "noclick"
     ELSE IF stock_symbol = ""
     THEN pc' = "done" /\ outcome' = "err_symbol"
     ELSE IF DateRangeInvalid(start, end)
     THEN pc' = "done" /\ outcome' = "err_date"
     ELSE pc' = "load_index" /\ UNCHANGED outcome
  /\ requests' = IF pc' = "load_index" THEN {} ELSE requests
  /\ UNCHANGED <<stock_code, start, end, clicked, cache, run_vars>>

start_early == start - Lookback

\* df_index_raw = load_price(TAIEX_SYMBOL, start_early, end)
LoadIndex ==
  /\ pc = "load_index"
  /\ \/ /\ fetch' = [fetch EXCEPT !.index = "raise"]
        /\ pc' = "done"
        /\ outcome' = "crashed"
        /\ UNCHANGED df_index_raw
     \/ /\ fetch' = [fetch EXCEPT !.index = "empty"]
        /\ pc' = "load_stock"
        /\ UNCHANGED <<outcome, df_index_raw>>
     \/ \E h \in IndexHistories(start_early, end) :
          /\ fetch' = [fetch EXCEPT !.index = "ok"]
          /\ df_index_raw' = h
          /\ pc' = "load_stock"
          /\ UNCHANGED outcome
  /\ UNCHANGED <<stock_code, start, end, clicked, cache, rendered, requests,
                 df_stock_raw, df,
                 Return_stock, Signal, Position, Equity_Strategy, Equity_BH,
                 metrics, report>>

\* df_stock_raw = load_price(stock_symbol, start_early, end), then
\* if df_index_raw.empty or df_stock_raw.empty: st.error(...); st.stop()
LoadStock ==
  /\ pc = "load_stock"
  /\ \/ /\ fetch' = [fetch EXCEPT !.stock = "raise"]
        /\ pc' = "done"
        /\ outcome' = "crashed"
        /\ UNCHANGED df_stock_raw
     \/ /\ fetch' = [fetch EXCEPT !.stock = "empty"]
        /\ pc' = "done"
        /\ outcome' = "err_fetch"
        /\ UNCHANGED df_stock_raw
     \/ \E h \in StockHistories(start_early, end) :
          /\ fetch' = [fetch EXCEPT !.stock = "ok"]
          /\ df_stock_raw' = h
          /\ IF df_index_raw = <<>>
             THEN pc' = "done" /\ outcome' = "err_fetch"
             ELSE pc' = "prepare" /\ UNCHANGED outcome
  /\ UNCHANGED <<stock_code, start, end, clicked, cache, rendered, requests,
                 df_index_raw, df,
                 Return_stock, Signal, Position, Equity_Strategy, Equity_BH,
                 metrics, report>>

-----------------------------------------------------------------------------
\* The frame: join, SMA, dropna, slice.

\* df = index frame joined (inner) with the stock's Price on the date, sorted,
\* and cut to [start_early, end].
Join(ix, st) ==
  LET dates == {st[j].date : j \in DOMAIN st}
      kept == SelectSeq(ix, LAMBDA r : r.date \in dates)
      StockAt(d) == st[CHOOSE j \in DOMAIN st : st[j].date = d].Price
      joined == [k \in 1..Len(kept) |->
                   [date |-> kept[k].date,
                    Price_index |-> kept[k].Price,
                    Price_stock |-> StockAt(kept[k].date)]]
  IN SelectSeq(joined, LAMBDA r : r.date >= start_early /\ r.date <= end)

RECURSIVE SumRange(_, _, _, _)
SumRange(rows, col, lo, hi) ==
  IF lo > hi THEN 0 ELSE rows[lo][col] + SumRange(rows, col, lo + 1, hi)

\* rolling(WINDOW).mean() of a column at row k (defined for k >= WINDOW)
SMA(rows, col, k) == Rat(SumRange(rows, col, k - WINDOW + 1, k), WINDOW)

\* The MA columns, then dropna: the rows before the WINDOW-th have no SMA.
WithMA(rows) ==
  [i \in 1..(IF Len(rows) >= WINDOW THEN Len(rows) - WINDOW + 1 ELSE 0) |->
     LET k == i + WINDOW - 1 IN
       [date |-> rows[k].date,
        Price_index |-> rows[k].Price_index,
        Price_stock |-> rows[k].Price_stock,
        MA_index |-> SMA(rows, "Price_index", k),
        MA_stock |-> SMA(rows, "Price_stock", k)]]

\* df.loc[start:end]
Slice(rows) == SelectSeq(rows, LAMBDA r : r.date >= start /\ r.date <= end)

\* Price_stock.pct_change().fillna(0)
PctChange(frame) ==
  [i \in 1..Len(frame) |->
     IF i = 1 THEN RInt(0)
     ELSE RSub(Rat(frame[i].Price_stock, frame[i - 1].Price_stock), RInt(1))]

Prepare ==
  /\ pc = "prepare"
  /\ LET frame == Slice(WithMA(Join(df_index_raw, df_stock_raw))) IN
       IF frame = <<>>
       THEN /\ pc' = "done"
            /\ outcome' = "err_range"
            /\ UNCHANGED <<df, Return_stock>>
       ELSE /\ df' = frame
            /\ Return_stock' = PctChange(frame)
            /\ pc' = "backtest"
            /\ UNCHANGED outcome
  /\ UNCHANGED <<stock_code, start, end, clicked, cache, rendered, requests, fetch,
                 df_index_raw, df_stock_raw, Signal, Position, Equity_Strategy,
                 Equity_BH, metrics, report>>

-----------------------------------------------------------------------------
\* Signal, Position, equity.

\* The enter condition with >= in place of >.
above_both_non_strict(row) ==
  /\ RLe(row.MA_index, RInt(row.Price_index))
  /\ RLe(row.MA_stock, RInt(row.Price_stock))

\* above_both / below_both of the Signal loop (strict comparisons)
above_both(row) ==
  /\ RLt(row.MA_index, RInt(row.Price_index))
  /\ RLt(row.MA_stock, RInt(row.Price_stock))

\* The exit condition with one filter in place of two: either price below its SMA.
below_either(row) ==
  \/ RLt(RInt(row.Price_index), row.MA_index)
  \/ RLt(RInt(row.Price_stock), row.MA_stock)

below_both(row) ==
  /\ RLt(RInt(row.Price_index), row.MA_index)
  /\ RLt(RInt(row.Price_stock), row.MA_stock)

\* One iteration of the Signal loop: the value written to df["Signal"][i].
SignalAt(above, below, above_prev, below_prev) ==
  IF above /\ ~above_prev THEN Enter
  ELSE IF below /\ ~below_prev THEN Exit
  ELSE 0

\* for i in range(len(df)): ... with above_both_prev / below_both_prev carried
RECURSIVE SignalLoop(_, _, _, _)
SignalLoop(frame, i, above_prev, below_prev) ==
  IF i > Len(frame) THEN <<>>
  ELSE LET above == above_both(frame[i])
           below == below_both(frame[i])
       IN <<SignalAt(above, below, above_prev, below_prev)>>
            \o SignalLoop(frame, i + 1, above, below)

\* The seed of the position with >= in place of >.
InitialPositionNonStrict(frame) ==
  IF /\ RLe(frame[1].MA_index, RInt(frame[1].Price_index))
     /\ RLe(frame[1].MA_stock, RInt(frame[1].Price_stock))
  THEN Long ELSE Flat

\* current_pos = 1 if (index > MA) and (stock > MA) on bar 0 else 0
InitialPosition(frame) ==
  IF /\ RLt(frame[1].MA_index, RInt(frame[1].Price_index))
     /\ RLt(frame[1].MA_stock, RInt(frame[1].Price_stock))
  THEN Long ELSE Flat

\* A position loop that forgets to go flat on an exit.
NextPositionKeepsLong(current_pos, s) ==
  IF s = Enter THEN Long ELSE current_pos

\* One iteration of the Position loop.
NextPosition(current_pos, s) ==
  IF s = Enter THEN Long ELSE IF s = Exit THEN Flat ELSE current_pos

RECURSIVE PositionLoop(_, _, _)
PositionLoop(signal, i, current_pos) ==
  IF i > Len(signal) THEN <<>>
  ELSE LET p == NextPosition(current_pos, signal[i])
       IN <<p>> \o PositionLoop(signal, i + 1, p)

\* An equity loop that looks at the current position only.
EquityStepIgnoringPrevious(last, pos, pos_prev, price, price_prev) ==
  IF pos = Long
  THEN RMul(last, Rat(price, price_prev))
  ELSE last

\* One iteration of the equity loop: the value appended to equity_strategy.
EquityStep(last, pos, pos_prev, price, price_prev) ==
  IF pos = Long /\ pos_prev = Long
  THEN RMul(last, Rat(price, price_prev))
  ELSE last

RECURSIVE EquityLoop(_, _, _, _)
EquityLoop(frame, position, i, last) ==
  IF i > Len(frame) THEN <<>>
  ELSE LET e == EquityStep(last, position[i], position[i - 1],
                           frame[i].Price_stock, frame[i - 1].Price_stock)
       IN <<e>> \o EquityLoop(frame, position, i + 1, e)

\* (1 + df["Return_stock"]).cumprod()
RECURSIVE CumProd(_, _, _)
CumProd(rets, i, last) ==
  IF i > Len(rets) THEN <<>>
  ELSE LET e == RMul(last, RAdd(RInt(1), rets[i]))
       IN <<e>> \o CumProd(rets, i + 1, e)

-----------------------------------------------------------------------------
\* Risk metrics.  A metric is [nan |-> BOOLEAN, term |-> exact description of
\* the number]; np.nan is NaN.

NaN == [nan |-> TRUE, term |-> <<>>]
Num(t) == [nan |-> FALSE, term |-> t]
Exact(r) == Num(<<"rat", r[1], r[2]>>)

\* Series.pct_change().fillna(0) of an equity column
PctChangeOf(eq) ==
  [i \in 1..Len(eq) |-> IF i = 1 THEN RInt(0) ELSE RSub(RDiv(eq[i], eq[i - 1]), RInt(1))]

Mean(xs) == RDiv(RSum(xs), RInt(Len(xs)))

\* pandas Series.std() squared (ddof = 1), for Len(xs) >= 2
Variance(xs) ==
  LET m == Mean(xs)
      sq == [i \in 1..Len(xs) |-> RMul(RSub(xs[i], m), RSub(xs[i], m))]
  IN RDiv(RSum(sq), RInt(Len(xs) - 1))

\* std > 0 in Python, given the variance: False when std is NaN (fewer than two
\* observations), which NoVariance stands for
NoVariance == <<-1, 1>>
VarianceOrNone(xs) == IF Len(xs) >= 2 THEN Variance(xs) ELSE NoVariance
StdPositive(var) == RLt(RInt(0), var)

\* vol, sharpe, sortino of calc_metrics from the mean and the two variances
MetricsOf(avg, var, downside) ==
  [vol |-> Num(<<"sqrt252_times_sqrt", var[1], var[2]>>),
   sharpe |-> IF StdPositive(var)
              THEN Num(<<"sqrt252_times", avg[1], avg[2], "over_sqrt", var[1], var[2]>>)
              ELSE NaN,
   sortino |-> IF StdPositive(downside)
               THEN Num(<<"sqrt252_times", avg[1], avg[2],
                          "over_sqrt", downside[1], downside[2]>>)
               ELSE NaN]

\* calc_metrics(series): (vol, sharpe, sortino)
calc_metrics(daily) ==
  IF Len(daily) <= 1
  THEN [vol |-> NaN, sharpe |-> NaN, sortino |-> NaN]
  ELSE MetricsOf(Mean(daily), Variance(daily),
                 VarianceOrNone(SelectSeq(daily, LAMBDA r : RLt(r, RInt(0)))))

\* years_len = (df.index[-1] - df.index[0]).days / 365 if len(df) > 1 else 0,
\* kept as its number of days
years_days(frame) == IF Len(frame) > 1 THEN frame[Len(frame)].date - frame[1].date ELSE 0

\* (eq / eq.cummax()).min(): the running peak and the lowest ratio so far
RECURSIVE MinRatioToPeak(_, _, _, _)
MinRatioToPeak(eq, i, peak, lowest) ==
  IF i > Len(eq) THEN lowest
  ELSE LET p == RMax(peak, eq[i])
       IN MinRatioToPeak(eq, i + 1, p, RMin(lowest, RDiv(eq[i], p)))

RECURSIVE SeqMax(_)
SeqMax(xs) == IF Len(xs) = 1 THEN xs[1] ELSE RMax(xs[1], SeqMax(Tail(xs)))

RECURSIVE SeqMin(_)
SeqMin(xs) == IF Len(xs) = 1 THEN xs[1] ELSE RMin(xs[1], SeqMin(Tail(xs)))

\* A drawdown measured against the highest value of the whole curve
\* (max in place of cummax).
MaxDrawdownGlobalPeak(eq) ==
  RSub(RInt(1), RDiv(SeqMin(eq), SeqMax(eq)))

\* mdd = 1 - (eq / eq.cummax()).min()
MaxDrawdown(eq) == RSub(RInt(1), MinRatioToPeak(eq, 1, eq[1], RInt(1)))

\* calc_core(eq, rets)
calc_core(eq, rets, days) ==
  LET final_eq == eq[Len(eq)]
      final_ret == RSub(final_eq, RInt(1))
      cagr == IF days > 0
              THEN Num(<<"pow_minus_1", final_eq[1], final_eq[2], "exp_365_over", days>>)
              ELSE NaN
      mdd == MaxDrawdown(eq)
      m == calc_metrics(rets)
      calmar == IF RLt(RInt(0), mdd)
                THEN (IF cagr.nan THEN NaN ELSE Num(<<"div", cagr.term, mdd[1], mdd[2]>>))
                ELSE NaN
  IN [final_eq |-> final_eq, final_ret |-> final_ret, cagr |-> cagr, mdd |-> mdd,
      vol |-> m.vol, sharpe |-> m.sharpe, sortino |-> m.sortino, calmar |-> calmar]

RECURSIVE CountNonZero(_)
CountNonZero(xs) ==
  IF xs = <<>> THEN 0 ELSE (IF xs[1] # 0 THEN 1 ELSE 0) + CountNonZero(Tail(xs))

\* The computation of a run, from the Signal loop to the metrics.
Backtest ==
  /\ pc = "backtest"
  /\ Signal' = SignalLoop(df, 1, FALSE, FALSE)
  /\ Position' = <<InitialPosition(df)>> \o PositionLoop(Signal', 2, InitialPosition(df))
  /\ Equity_Strategy' = <<RInt(1)>> \o EquityLoop(df, Position', 2, RInt(1))
  /\ Equity_BH' = CumProd(Return_stock, 1, RInt(1))
  /\ metrics' = <<calc_core(Equity_Strategy', PctChangeOf(Equity_Strategy'), years_days(df)),
                  calc_core(Equity_BH', Return_stock, years_days(df))>>
  /\ pc' = "report"
  /\ UNCHANGED <<outcome, stock_code, start, end, clicked, cache, rendered, requests,
                 fetch, df_index_raw, df_stock_raw, df, Return_stock, report>>

-----------------------------------------------------------------------------
\* The report.  Rendered text is ASCII here: Placeholder stands for the
\* em-dash the formatters return from their except branch, " NTD" for the
\* currency suffix, Digits for the digits of a finite number.

Placeholder == "[em-dash]"
Digits == "[digits]"

\* format(v, "...f") / "...%" of a float never raises: NaN formats as "nan"
FloatText(v) == IF v.nan THEN "nan" ELSE Digits

fmt_money(v) == FloatText(v) \o " NTD"
fmt_pct(v) == FloatText(v) \o "%"
fmt_num(v) == FloatText(v)
\* int(v) raises ValueError on NaN, which the bare except turns into the dash
fmt_int(v) == IF v.nan THEN Placeholder ELSE Digits
format_currency(v) == FloatText(v) \o " NTD"
\* v * 100 of NaN is NaN
format_percent(v) == FloatText(v) \o "%"

\* float(np.nan_to_num(x, nan=default)) with default = 0.0
nz(x) == IF x.nan THEN Exact(RInt(0)) ELSE x

Neg(x) == IF x.nan THEN NaN ELSE Num(<<"neg", x.term>>)
\* a - b of two floats
Gap(a, b) == IF a.nan \/ b.nan THEN NaN ELSE Num(<<"sub", a.term, b.term>>)
\* f"... {gap:+.2f}%"
DeltaText(gap) == (IF gap.nan THEN "+nan" ELSE Digits) \o "%"

Radar(m) ==
  [CAGR |-> nz(m.cagr), Sharpe |-> nz(m.sharpe), Sortino |-> nz(m.sortino),
   negMDD |-> nz(Neg(Exact(m.mdd))), negVol |-> nz(Neg(m.vol))]

\* One row of the formatted metrics table.
TableRow(m, trades) ==
  [final_asset |-> fmt_money(Exact(RMul(m.final_eq, RInt(Capital)))),
   total_return |-> fmt_pct(Exact(m.final_ret)),
   CAGR |-> fmt_pct(m.cagr),
   Calmar |-> fmt_num(m.calmar),
   MDD |-> fmt_pct(Exact(m.mdd)),
   vol |-> fmt_pct(m.vol),
   Sharpe |-> fmt_num(m.sharpe),
   Sortino |-> fmt_num(m.sortino),
   trades |-> fmt_int(trades)]

\* The four KPI cards of the strategy: value and delta against buy-and-hold.
KpiCards(ms, mb) ==
  [final_asset |-> format_currency(Exact(RMul(ms.final_eq, RInt(Capital)))),
   CAGR |-> format_percent(ms.cagr),
   CAGR_delta |-> DeltaText(Gap(ms.cagr, mb.cagr)),
   vol |-> format_percent(ms.vol),
   vol_delta |-> DeltaText(Gap(ms.vol, mb.vol)),
   MDD |-> format_percent(Exact(ms.mdd)),
   MDD_delta |-> DeltaText(Gap(Exact(ms.mdd), Exact(mb.mdd)))]

Render ==
  /\ pc = "report"
  /\ report' = <<[radar_strategy |-> Radar(metrics[1]),
                  radar_bh |-> Radar(metrics[2]),
                  kpi |-> KpiCards(metrics[1], metrics[2]),
                  table_strategy |-> TableRow(metrics[1],
                                              Exact(RInt(CountNonZero(Signal)))),
                  table_bh |-> TableRow(metrics[2], NaN)]>>
  /\ pc' = "done"
  /\ outcome' = "report"
  /\ UNCHANGED <<stock_code, start, end, clicked, cache, rendered, requests,
                 fetch, df_index_raw, df_stock_raw, df, Return_stock, Signal, Position,
                 Equity_Strategy, Equity_BH, metrics>>

\* The page waits for the next interaction; a rerun starts from a fresh script
\* namespace, only st.cache_data and the drawn widgets survive.
Finish ==
  /\ pc = "done"
  /\ pc' = "idle"
  /\ fetch' = [index |-> "none", stock |-> "none"]
  /\ df_index_raw' = <<>>
  /\ df_stock_raw' = <<>>
  /\ df' = <<>>
  /\ Return_stock' = <<>>
  /\ Signal' = <<>>
  /\ Position' = <<>>
  /\ Equity_Strategy' = <<>>
  /\ Equity_BH' = <<>>
  /\ metrics' = <<>>
  /\ report' = <<>>
  /\ requests' = {}
  /\ UNCHANGED <<outcome, stock_code, start, end, clicked, cache, rendered>>

Next == StartRun \/ RangeIndex \/ RangeStock \/ Validate \/ LoadIndex \/ LoadStock
        \/ Prepare \/ Backtest \/ Render \/ Finish

Spec == Init /\ [][Next]_vars

-----------------------------------------------------------------------------
\* Properties.

\* price > ma and price < ma, on the integers the rationals are made of
StrictlyAbove(price, ma) == price * ma[2] > ma[1]
StrictlyBelow(price, ma) == price * ma[2] < ma[1]
BothAbove(row) ==
  StrictlyAbove(row.Price_index, row.MA_index) /\ StrictlyAbove(row.Price_stock, row.MA_stock)
BothBelow(row) ==
  StrictlyBelow(row.Price_index, row.MA_index) /\ StrictlyBelow(row.Price_stock, row.MA_stock)

HasEquity == Equity_Strategy # <<>>
Bars == 1..Len(df)

\* C1: the strategy equity starts at 1.0, and on every bar after the first it
\* equals the previous bar's equity whenever the previous bar's Position is Flat.
C1_EquityUnchangedAfterFlat ==
  HasEquity =>
    /\ Equity_Strategy[1] = <<1, 1>>
    /\ \A i \in Bars \ {1} :
         Position[i - 1] = Flat => Equity_Strategy[i] = Equity_Strategy[i - 1]

\* C1 witness: an entry bar on which the price moved: the previous bar is Flat,
\* this bar is Long, the stock's price changed, and the equity did not.
C1_Witness ==
  /\ HasEquity
  /\ \E i \in Bars \ {1} :
       /\ Position[i - 1] = Flat
       /\ Position[i] = Long
       /\ df[i].Price_stock # df[i - 1].Price_stock
       /\ Equity_Strategy[i] = Equity_Strategy[i - 1]

\* C2: on every bar after the first the equity is the previous equity times
\* Price_stock[i] / Price_stock[i-1] if the previous bar's Position is Long
\* (also on an exit bar), and the previous equity otherwise.
C2_EquityFollowsPreviousPosition ==
  HasEquity =>
    \A i \in Bars \ {1} :
      Equity_Strategy[i] =
        IF Position[i - 1] = Long
        THEN RMul(Equity_Strategy[i - 1], Rat(df[i].Price_stock, df[i - 1].Price_stock))
        ELSE Equity_Strategy[i - 1]

\* C3: signals alternate: two signals with no signal between them are never
\* both Enter nor both Exit.
C3_SignalsAlternate ==
  Signal # <<>> =>
    \A i \in Bars : \A j \in Bars :
      (/\ i < j
       /\ Signal[i] # 0
       /\ Signal[j] # 0
       /\ \A k \in Bars : (i < k /\ k < j) => Signal[k] = 0)
      => Signal[i] # Signal[j]

UndefinedCells(m, row, radar) ==
  /\ m.cagr.nan => (row.CAGR = Placeholder /\ radar.CAGR.nan)
  /\ m.sharpe.nan => (row.Sharpe = Placeholder /\ radar.Sharpe.nan)
  /\ m.sortino.nan => (row.Sortino = Placeholder /\ radar.Sortino.nan)
  /\ m.calmar.nan => row.Calmar = Placeholder

\* C4: every undefined metric (CAGR, Sharpe, Sortino, Calmar) reaches the
\* report as NaN: its table cell and KPI card show the placeholder and the
\* radar chart does not get a number in its place.
C4_UndefinedMetricsShowPlaceholder ==
  report # <<>> =>
    /\ UndefinedCells(metrics[1], report[1].table_strategy, report[1].radar_strategy)
    /\ UndefinedCells(metrics[2], report[1].table_bh, report[1].radar_bh)
    /\ metrics[1].cagr.nan => report[1].kpi.CAGR = Placeholder
    /\ report[1].table_bh.trades = Placeholder

Computing == pc \in {"backtest", "report"}

NothingComputed ==
  /\ Signal = <<>>
  /\ Position = <<>>
  /\ Equity_Strategy = <<>>
  /\ Equity_BH = <<>>

\* Fewer than WINDOW common bars, or no bar with an SMA inside [start, end].
InsufficientHistory ==
  /\ fetch.index = "ok"
  /\ fetch.stock = "ok"
  /\ Slice(WithMA(Join(df_index_raw, df_stock_raw))) = <<>>

NoDataForSymbol == fetch.index = "empty" \/ fetch.stock = "empty"
ProviderFailure == fetch.index = "raise" \/ fetch.stock = "raise"

\* C5: a run that met InsufficientHistory, NoDataForSymbol or ProviderFailure
\* ends with an error message (not a crash) and computes no Signal, Position or
\* equity; the signal and position code runs on a frame of at least one bar.
C5_FailuresEndInErrorMessage ==
  /\ (pc = "done" /\ (InsufficientHistory \/ NoDataForSymbol \/ ProviderFailure))
       => (outcome \in {"err_fetch", "err_range"} /\ NothingComputed)
  /\ Computing => Len(df) >= 1

\* C6: a run with start >= end issues no request to the provider
\* (get_symbol_range, load_price) before it is rejected with the date error.
C6_NoRequestBeforeDateRejection ==
  (clicked /\ start >= end /\ outcome = "err_date") =>
    (requests = {} /\ fetch = [index |-> "none", stock |-> "none"])

\* C6 as amended: a run with start >= end never calls load_price and computes
\* nothing; it ends at the date error, unless the stock code is missing or
\* get_symbol_range raised first.  The date error is given to such runs only.
C6_NoLoadBeforeDateRejection ==
  /\ (clicked /\ start >= end) =>
       /\ fetch = [index |-> "none", stock |-> "none"]
       /\ df = <<>>
       /\ pc \in {"idle", "range_index", "range_stock", "button", "done"}
       /\ pc = "done" => outcome \in {"err_date", "err_symbol", "crashed"}
  /\ outcome = "err_date" => (clicked /\ start >= end)

\* C6 witness: a rejected run that had asked the provider for a symbol's range.
C6_Witness ==
  /\ pc = "done"
  /\ outcome = "err_date"
  /\ start >= end
  /\ \E r \in requests : r[1] = "get_symbol_range"

NonDecreasing(eq) == \A i \in 2..Len(eq) : RLe(eq[i - 1], eq[i])

DrawdownOk(m, eq) ==
  /\ RLe(RInt(0), m.mdd)
  /\ RLe(m.mdd, RInt(1))
  /\ NonDecreasing(eq) => (m.mdd = <<0, 1>> /\ m.calmar.nan)

\* C7: the maximum drawdown of both equity curves lies in [0, 1]; it is 0 for
\* a curve that never falls, and Calmar is then undefined.
C7_MaxDrawdownInUnitInterval ==
  metrics # <<>> =>
    /\ DrawdownOk(metrics[1], Equity_Strategy)
    /\ DrawdownOk(metrics[2], Equity_BH)

\* C7 witness: buy-and-hold fell from a peak (drawdown above 0) while the
\* strategy curve rose and never fell (drawdown 0).
C7_Witness ==
  /\ metrics # <<>>
  /\ RLt(RInt(0), metrics[2].mdd)
  /\ NonDecreasing(Equity_Strategy)
  /\ RLt(RInt(1), Equity_Strategy[Len(Equity_Strategy)])
  /\ metrics[1].mdd = <<0, 1>>

\* WINDOW equal prices followed by a strictly rising run
FlatThenRising(rows, col) ==
  /\ Len(rows) > WINDOW
  /\ \A k \in 2..WINDOW : rows[k][col] = rows[1][col]
  /\ \A k \in (WINDOW + 1)..Len(rows) : rows[k][col] > rows[k - 1][col]

\* Both histories are flat-then-rising and the frame holds every bar with an
\* SMA: the frame is the last flat bar followed by the rising run.
FlatThenRisingScenario ==
  /\ Len(df) >= 2
  /\ \A i \in 2..Len(df) :
       /\ df[i].Price_index > df[i - 1].Price_index
       /\ df[i].Price_stock > df[i - 1].Price_stock
  /\ LET joined == Join(df_index_raw, df_stock_raw) IN
       /\ Len(df) = Len(joined) - WINDOW + 1
       /\ FlatThenRising(joined, "Price_index")
       /\ FlatThenRising(joined, "Price_stock")

\* C8: in the flat-then-rising scenario there is exactly one Enter and no Exit,
\* the Enter is on the first bar whose price is above its SMA (the second bar of
\* the frame), and from that bar on Equity_BH / Equity_Strategy is exactly
\* 1 + the return of the entry bar.
C8_FlatThenRisingScenario ==
  FlatThenRisingScenario =>
    /\ Signal # <<>> =>
         /\ ~BothAbove(df[1])
         /\ BothAbove(df[2])
         /\ \A i \in Bars : Signal[i] = (IF i = 2 THEN Enter ELSE 0)
    /\ HasEquity =>
         \A i \in Bars \ {1} :
           Equity_BH[i] = RMul(Equity_Strategy[i], RAdd(RInt(1), Return_stock[2]))

\* C8 witness: the scenario with at least two rising bars, equity computed.
C8_Witness ==
  /\ FlatThenRisingScenario
  /\ HasEquity
  /\ Len(df) >= 3
  /\ RLt(Equity_Strategy[3], Equity_BH[3])

\* C9: Position[0] is Long iff both prices are above their SMAs on the first
\* bar; afterwards Position is Long on an Enter, Flat on an Exit and the
\* previous Position on a bar without a signal.
C9_PositionStateMachine ==
  Position # <<>> =>
    /\ Position[1] = (IF BothAbove(df[1]) THEN Long ELSE Flat)
    /\ \A i \in Bars \ {1} :
         Position[i] = (IF Signal[i] = Enter THEN Long
                        ELSE IF Signal[i] = Exit THEN Flat
                        ELSE Position[i - 1])

\* C9 witness: a run that is Long, goes Flat on an Exit and holds Flat on a bar
\* without a signal.
C9_Witness ==
  /\ Position # <<>>
  /\ \E i \in Bars \ {1} :
       /\ Position[i - 1] = Long
       /\ Signal[i] = Exit
       /\ Position[i] = Flat
       /\ i + 1 \in Bars
       /\ Signal[i + 1] = 0
       /\ Position[i + 1] = Flat

PrevBothAbove(i) == i > 1 /\ BothAbove(df[i - 1])
PrevBothBelow(i) == i > 1 /\ BothBelow(df[i - 1])

\* C10: Signal[i] is Enter exactly when both prices are strictly above their
\* SMAs on bar i and were not on bar i-1 (never, on the first bar), Exit exactly
\* when both are strictly below on bar i and were not on bar i-1, None
\* otherwise; so the same signal never fires on two consecutive bars and a bar
\* where a price equals its SMA carries no signal.
C10_EdgeTriggeredStrictSignals ==
  Signal # <<>> =>
    \A i \in Bars :
      /\ Signal[i] \in {Enter, Exit, 0}
      /\ Signal[i] = Enter <=> (BothAbove(df[i]) /\ ~PrevBothAbove(i))
      /\ Signal[i] = Exit <=> (BothBelow(df[i]) /\ ~PrevBothBelow(i))
      /\ (i > 1 /\ Signal[i] # 0) => Signal[i - 1] # Signal[i]
      /\ (\/ df[i].Price_index * df[i].MA_index[2] = df[i].MA_index[1]
          \/ df[i].Price_stock * df[i].MA_stock[2] = df[i].MA_stock[1])
           => Signal[i] = 0

\* C10 witness: an Enter on the first bar, a bar where the stock's price equals
\* its SMA (no signal), and another Enter.
C10_Witness ==
  /\ Signal # <<>>
  /\ Len(df) >= 3
  /\ Signal[1] = Enter
  /\ df[2].Price_stock * df[2].MA_stock[2] = df[2].MA_stock[1]
  /\ Signal[2] = 0
  /\ Signal[3] = Enter

\* C11: on every bar of the backtest frame, Position is Long if both prices
\* are strictly above their SMAs and Flat if both are strictly below; Position
\* differs from the previous bar's only on such a bar, so on a mixed or equal
\* bar it holds the previous value.
C11_PositionTiedToMarketCondition ==
  Position # <<>> =>
    \A i \in Bars :
      /\ BothAbove(df[i]) => Position[i] = Long
      /\ BothBelow(df[i]) => Position[i] = Flat
      /\ (i > 1 /\ Position[i] # Position[i - 1])
           => (BothAbove(df[i]) \/ BothBelow(df[i]))

\* C11 witness: a second consecutive bar above both SMAs, which carries no
\* signal and is Long, followed by a bar below both where Position turns Flat.
C11_Witness ==
  /\ Position # <<>>
  /\ \E i \in Bars \ {1} :
       /\ BothAbove(df[i - 1])
       /\ BothAbove(df[i])
       /\ Signal[i] = 0
       /\ Position[i] = Long
       /\ i + 1 \in Bars
       /\ BothBelow(df[i + 1])
       /\ Position[i + 1] = Flat
====
